---- MODULE Spec2Model ----
(***************************************************************************)
(* NearDIDRegistry (src/src/lib.rs): an ERC-1056 style DID registry.       *)
(* Five LookupMaps (owners, delegates, attributes, changed, nonce), the    *)
(* host environment (predecessor account, block height, block timestamp)   *)
(* and one action per public method.  A method that panics (assert_eq! in  *)
(* assert_only_owner, or an overflow-checked addition) commits no write.   *)
(***************************************************************************)
EXTENDS Integers, Sequences, FiniteSets, TLC

\* ------------------------------------------------------------------ bounds

\* Largest value of the (scaled down) u64 type; arithmetic is modulo MaxU64 + 1.
MaxU64 == 5

\* The host produces at most MaxHeight blocks after the deployment block.
MaxHeight == 2

\* The registry processes at most MaxCalls calls (successful or not).
MaxCalls == 3

\* ----------------------------------------------------------------- domains

Modulus == MaxU64 + 1

\* AccountId / identity strings (accounts(1), accounts(2) of the tests).
Identities == {"alice", "bob"}

Accounts == Identities

DelegateTypes == {"veriKey"}

Delegates == {"bob"}

Names == {"svc"}

\* Vec<u8> values: b"x".
Values == {<<120>>}

DelegateKeys == Identities \X DelegateTypes \X Delegates

AttributeKeys == Identities \X Names \X Values

\* One identity with two delegates and two values under one name: the empty byte
\* string and b"x".
WideIdentities == {"alice"}

WideValues == {<< >>, <<120>>}

WideDelegateKeys == WideIdentities \X DelegateTypes \X Accounts

WideAttributeKeys == WideIdentities \X Names \X WideValues

\* validity_secs arguments: none, short, and the largest u64.
ValiditySecs == {0, 2, MaxU64}

\* Milliseconds by which the block timestamp advances from one block to the next.
BlockMillis == {1500}

\* ------------------------------------------------------------------- state

VARIABLES
    owners,              \* LookupMap<String, String>
    delegates,           \* LookupMap<(String, String, String), u64>
    attributes,          \* LookupMap<(String, String, Vec<u8>), u64>
    changed,             \* LookupMap<String, u64>
    nonce,               \* LookupMap<String, u64>
    block_height,        \* env::block_height()
    block_timestamp_ms,  \* env::block_timestamp_ms()
    overflow_checks,     \* build profile: u64 `+` panics on overflow (TRUE) or wraps (FALSE)
    result,              \* outcome of the latest call: "ok" or the panic message
    calls,               \* number of calls processed so far
    last_change_owner,   \* history: identity -> its latest successful change_owner
    last_mutation,       \* history: identity -> its latest successful owner-gated call
    delegate_grants,     \* history: delegate key -> its latest successful add_delegate
    attribute_grants     \* history: attribute key -> its latest successful set_attribute

maps == <<owners, delegates, attributes, changed, nonce>>

host == <<block_height, block_timestamp_ms, overflow_checks>>

history == <<last_change_owner, last_mutation, delegate_grants, attribute_grants>>

vars == <<owners, delegates, attributes, changed, nonce, block_height,
          block_timestamp_ms, overflow_checks, result, calls, last_change_owner,
          last_mutation, delegate_grants, attribute_grants>>

\* ------------------------------------------------------------- LookupMap

\* LookupMap::new: no key has a value.
EmptyMap == [k \in {} |-> 0]

\* LookupMap::insert: set or overwrite the value of one key.
Insert(m, k, v) == [x \in (DOMAIN m) \cup {k} |-> IF x = k THEN v ELSE m[x]]

\* LookupMap::get(..).unwrap_or(default)
GetOr(m, k, default) == IF k \in DOMAIN m THEN m[k] ELSE default

\* ---------------------------------------------------------------- reads

\* env::block_timestamp_ms() / 1000
now_seconds == block_timestamp_ms \div 1000

identity_owner(identity) == GetOr(owners, identity, identity)

\* Bug variant: the assertion is missing.
assert_only_owner_absent(identity, actor) == TRUE

\* Bug variant: the actor is compared with the identity, not with its recorded owner.
assert_only_owner_self(identity, actor) == actor = identity

\* assert_eq!(actor, &owner, "bad_actor"): TRUE iff the assertion passes.
assert_only_owner(identity, actor) == actor = identity_owner(identity)

\* Bug variant: a record is still valid at the second it expires.
valid_delegate_inclusive(identity, delegate_type, delegate) ==
    LET key == <<identity, delegate_type, delegate>>
    IN  IF key \in DOMAIN delegates THEN delegates[key] >= now_seconds ELSE FALSE

\* Bug variant: a key without a record counts as valid.
valid_delegate_absent(identity, delegate_type, delegate) ==
    LET key == <<identity, delegate_type, delegate>>
    IN  IF key \in DOMAIN delegates THEN delegates[key] > now_seconds ELSE TRUE

valid_delegate(identity, delegate_type, delegate) ==
    LET key == <<identity, delegate_type, delegate>>
    IN  IF key \in DOMAIN delegates THEN delegates[key] > now_seconds ELSE FALSE

\* Bug variant: a record is still valid at the second it expires.
valid_attribute_inclusive(identity, name, value) ==
    LET key == <<identity, name, value>>
    IN  IF key \in DOMAIN attributes THEN attributes[key] >= now_seconds ELSE FALSE

valid_attribute(identity, name, value) ==
    LET key == <<identity, name, value>>
    IN  IF key \in DOMAIN attributes THEN attributes[key] > now_seconds ELSE FALSE

get_nonce(identity) == GetOr(nonce, identity, 0)

get_changed(identity) == GetOr(changed, identity, 0)

\* ------------------------------------------------------------ u64 addition

\* a + b exceeds the u64 range.
Overflows(a, b) == a + b > MaxU64

\* a + b in a build without overflow checks.
WrappingAdd(a, b) == (a + b) % Modulus

\* --------------------------------------------------------------- outcomes

\* The host hands one more call to the contract.
Call ==
    /\ calls < MaxCalls
    /\ calls' = calls + 1

\* A panic aborts the call: the message is the only effect.
Panic(msg) ==
    /\ Call
    /\ result' = msg
    /\ UNCHANGED <<maps, host, history>>

\* The call returns normally.
Return ==
    /\ Call
    /\ result' = "ok"

\* History of a successful owner-gated call on identity.
Mutated(identity, actor) ==
    last_mutation' = Insert(last_mutation, identity, [height |-> block_height, by |-> actor])

\* History of a successful grant of validity_secs seconds.
Grant(validity_secs) ==
    [at |-> now_seconds, secs |-> validity_secs, revoked |-> FALSE, again |-> FALSE]

\* History of a successful revocation of key; again records that the grant had
\* been revoked before.
Revoke(grants, key) ==
    IF key \in DOMAIN grants
    THEN [grants EXCEPT ![key].revoked = TRUE, ![key].again = grants[key].revoked]
    ELSE grants

\* ---------------------------------------------------------------- methods

\* Bug variant: the transfer revokes the delegates granted under the identity.
change_owner_revoking(identity, new_owner, actor) ==
    IF ~assert_only_owner(identity, actor)
    THEN Panic("bad_actor")
    ELSE /\ owners' = Insert(owners, identity, new_owner)
         /\ delegates' = [k \in DOMAIN delegates |->
                             IF k[1] = identity THEN 0 ELSE delegates[k]]
         /\ changed' = Insert(changed, identity, block_height)
         /\ Return
         /\ last_change_owner' = Insert(last_change_owner, identity,
                [new_owner |-> new_owner, previous |-> identity_owner(identity)])
         /\ Mutated(identity, actor)
         /\ UNCHANGED <<attributes, nonce, host, delegate_grants, attribute_grants>>

\* Bug variant: the actor, not new_owner, is recorded as the owner.
change_owner_actor(identity, new_owner, actor) ==
    IF ~assert_only_owner(identity, actor)
    THEN Panic("bad_actor")
    ELSE /\ owners' = Insert(owners, identity, actor)
         /\ changed' = Insert(changed, identity, block_height)
         /\ Return
         /\ last_change_owner' = Insert(last_change_owner, identity,
                [new_owner |-> new_owner, previous |-> identity_owner(identity)])
         /\ Mutated(identity, actor)
         /\ UNCHANGED <<delegates, attributes, nonce, host, delegate_grants,
                        attribute_grants>>

change_owner(identity, new_owner, actor) ==
    IF ~assert_only_owner(identity, actor)
    THEN Panic("bad_actor")
    ELSE /\ owners' = Insert(owners, identity, new_owner)
         /\ changed' = Insert(changed, identity, block_height)
         /\ Return
         /\ last_change_owner' = Insert(last_change_owner, identity,
                [new_owner |-> new_owner, previous |-> identity_owner(identity)])
         /\ Mutated(identity, actor)
         /\ UNCHANGED <<delegates, attributes, nonce, host, delegate_grants,
                        attribute_grants>>

\* Bug variant: the grant also records the block height for the delegate's identity.
add_delegate_touching(identity, delegate_type, delegate, validity_secs, actor) ==
    LET key == <<identity, delegate_type, delegate>>
    IN  IF ~assert_only_owner(identity, actor)
        THEN Panic("bad_actor")
        ELSE IF overflow_checks /\ Overflows(now_seconds, validity_secs)
        THEN Panic("attempt to add with overflow")
        ELSE /\ delegates' = Insert(delegates, key, WrappingAdd(now_seconds, validity_secs))
             /\ changed' = Insert(Insert(changed, identity, block_height),
                                  delegate, block_height)
             /\ Return
             /\ Mutated(identity, actor)
             /\ delegate_grants' = Insert(delegate_grants, key, Grant(validity_secs))
             /\ UNCHANGED <<owners, attributes, nonce, host, last_change_owner,
                            attribute_grants>>

\* Bug variant: a grant also records the actor as the owner of the identity.
add_delegate_owning(identity, delegate_type, delegate, validity_secs, actor) ==
    LET key == <<identity, delegate_type, delegate>>
    IN  IF ~assert_only_owner(identity, actor)
        THEN Panic("bad_actor")
        ELSE IF overflow_checks /\ Overflows(now_seconds, validity_secs)
        THEN Panic("attempt to add with overflow")
        ELSE /\ delegates' = Insert(delegates, key, WrappingAdd(now_seconds, validity_secs))
             /\ owners' = Insert(owners, identity, actor)
             /\ changed' = Insert(changed, identity, block_height)
             /\ Return
             /\ Mutated(identity, actor)
             /\ delegate_grants' = Insert(delegate_grants, key, Grant(validity_secs))
             /\ UNCHANGED <<attributes, nonce, host, last_change_owner,
                            attribute_grants>>

add_delegate(identity, delegate_type, delegate, validity_secs, actor) ==
    LET key == <<identity, delegate_type, delegate>>
    IN  IF ~assert_only_owner(identity, actor)
        THEN Panic("bad_actor")
        ELSE IF overflow_checks /\ Overflows(now_seconds, validity_secs)
        THEN Panic("attempt to add with overflow")
        ELSE /\ delegates' = Insert(delegates, key, WrappingAdd(now_seconds, validity_secs))
             /\ changed' = Insert(changed, identity, block_height)
             /\ Return
             /\ Mutated(identity, actor)
             /\ delegate_grants' = Insert(delegate_grants, key, Grant(validity_secs))
             /\ UNCHANGED <<owners, attributes, nonce, host, last_change_owner,
                            attribute_grants>>

\* Bug variant: the revocation removes the record.
revoke_delegate_remove(identity, delegate_type, delegate, actor) ==
    LET key == <<identity, delegate_type, delegate>>
    IN  IF ~assert_only_owner(identity, actor)
        THEN Panic("bad_actor")
        ELSE /\ delegates' = [k \in DOMAIN delegates \ {key} |-> delegates[k]]
             /\ changed' = Insert(changed, identity, block_height)
             /\ Return
             /\ Mutated(identity, actor)
             /\ delegate_grants' = Revoke(delegate_grants, key)
             /\ UNCHANGED <<owners, attributes, nonce, host, last_change_owner,
                            attribute_grants>>

\* Bug variant: revoking a key that holds no unrevoked record is an error.
revoke_delegate_strict(identity, delegate_type, delegate, actor) ==
    LET key == <<identity, delegate_type, delegate>>
    IN  IF ~assert_only_owner(identity, actor)
        THEN Panic("bad_actor")
        ELSE IF GetOr(delegates, key, 0) = 0
        THEN Panic("not_granted")
        ELSE /\ delegates' = Insert(delegates, key, 0)
             /\ changed' = Insert(changed, identity, block_height)
             /\ Return
             /\ Mutated(identity, actor)
             /\ delegate_grants' = Revoke(delegate_grants, key)
             /\ UNCHANGED <<owners, attributes, nonce, host, last_change_owner,
                            attribute_grants>>

revoke_delegate(identity, delegate_type, delegate, actor) ==
    LET key == <<identity, delegate_type, delegate>>
    IN  IF ~assert_only_owner(identity, actor)
        THEN Panic("bad_actor")
        ELSE /\ delegates' = Insert(delegates, key, 0)
             /\ changed' = Insert(changed, identity, block_height)
             /\ Return
             /\ Mutated(identity, actor)
             /\ delegate_grants' = Revoke(delegate_grants, key)
             /\ UNCHANGED <<owners, attributes, nonce, host, last_change_owner,
                            attribute_grants>>

\* Bug variant: the change is recorded in clock seconds, not in block heights.
set_attribute_stamp(identity, name, value, validity_secs, actor) ==
    LET key == <<identity, name, value>>
    IN  IF ~assert_only_owner(identity, actor)
        THEN Panic("bad_actor")
        ELSE IF overflow_checks /\ Overflows(now_seconds, validity_secs)
        THEN Panic("attempt to add with overflow")
        ELSE /\ attributes' = Insert(attributes, key, WrappingAdd(now_seconds, validity_secs))
             /\ changed' = Insert(changed, identity, now_seconds)
             /\ Return
             /\ Mutated(identity, actor)
             /\ attribute_grants' = Insert(attribute_grants, key, Grant(validity_secs))
             /\ UNCHANGED <<owners, delegates, nonce, host, last_change_owner,
                            delegate_grants>>

\* Bug variant: the record is keyed by identity and name; the value is ignored.
set_attribute_by_name(identity, name, value, validity_secs, actor) ==
    LET key == <<identity, name, value>>
        valid_until == WrappingAdd(now_seconds, validity_secs)
    IN  IF ~assert_only_owner(identity, actor)
        THEN Panic("bad_actor")
        ELSE IF overflow_checks /\ Overflows(now_seconds, validity_secs)
        THEN Panic("attempt to add with overflow")
        ELSE /\ attributes' = [k \in DOMAIN attributes \union {key} |->
                                  IF k[1] = identity /\ k[2] = name
                                  THEN valid_until
                                  ELSE attributes[k]]
             /\ changed' = Insert(changed, identity, block_height)
             /\ Return
             /\ Mutated(identity, actor)
             /\ attribute_grants' = Insert(attribute_grants, key, Grant(validity_secs))
             /\ UNCHANGED <<owners, delegates, nonce, host, last_change_owner,
                            delegate_grants>>

set_attribute(identity, name, value, validity_secs, actor) ==
    LET key == <<identity, name, value>>
    IN  IF ~assert_only_owner(identity, actor)
        THEN Panic("bad_actor")
        ELSE IF overflow_checks /\ Overflows(now_seconds, validity_secs)
        THEN Panic("attempt to add with overflow")
        ELSE /\ attributes' = Insert(attributes, key, WrappingAdd(now_seconds, validity_secs))
             /\ changed' = Insert(changed, identity, block_height)
             /\ Return
             /\ Mutated(identity, actor)
             /\ attribute_grants' = Insert(attribute_grants, key, Grant(validity_secs))
             /\ UNCHANGED <<owners, delegates, nonce, host, last_change_owner,
                            delegate_grants>>

\* Bug variant: the revocation does not record the block height.
revoke_attribute_silent(identity, name, value, actor) ==
    LET key == <<identity, name, value>>
    IN  IF ~assert_only_owner(identity, actor)
        THEN Panic("bad_actor")
        ELSE /\ attributes' = Insert(attributes, key, 0)
             /\ Return
             /\ Mutated(identity, actor)
             /\ attribute_grants' = Revoke(attribute_grants, key)
             /\ UNCHANGED <<owners, delegates, changed, nonce, host, last_change_owner,
                            delegate_grants>>

revoke_attribute(identity, name, value, actor) ==
    LET key == <<identity, name, value>>
    IN  IF ~assert_only_owner(identity, actor)
        THEN Panic("bad_actor")
        ELSE /\ attributes' = Insert(attributes, key, 0)
             /\ changed' = Insert(changed, identity, block_height)
             /\ Return
             /\ Mutated(identity, actor)
             /\ attribute_grants' = Revoke(attribute_grants, key)
             /\ UNCHANGED <<owners, delegates, nonce, host, last_change_owner,
                            delegate_grants>>

increment_nonce(identity, actor) ==
    LET n == GetOr(nonce, identity, 0)
    IN  IF overflow_checks /\ Overflows(n, 1)
        THEN Panic("attempt to add with overflow")
        ELSE /\ nonce' = Insert(nonce, identity, WrappingAdd(n, 1))
             /\ Return
             /\ UNCHANGED <<owners, delegates, attributes, changed, host, history>>

\* ------------------------------------------------------------------- host

\* The host produces the next block: the height grows by one, the clock advances.
NewBlock(millis) ==
    /\ block_height < MaxHeight
    /\ block_height' = block_height + 1
    /\ block_timestamp_ms' = block_timestamp_ms + millis
    /\ UNCHANGED <<maps, overflow_checks, result, calls, history>>

\* ---------------------------------------------------------- specification

Init ==
    /\ owners = EmptyMap
    /\ delegates = EmptyMap
    /\ attributes = EmptyMap
    /\ changed = EmptyMap
    /\ nonce = EmptyMap
    /\ block_height = 0
    /\ block_timestamp_ms = 0
    /\ overflow_checks \in BOOLEAN
    /\ result = "none"
    /\ calls = 0
    /\ last_change_owner = EmptyMap
    /\ last_mutation = EmptyMap
    /\ delegate_grants = EmptyMap
    /\ attribute_grants = EmptyMap

Next ==
    \/ \E i \in Identities, o \in Accounts, a \in Accounts : change_owner(i, o, a)
    \/ \E k \in DelegateKeys, s \in ValiditySecs, a \in Accounts :
          add_delegate(k[1], k[2], k[3], s, a)
    \/ \E k \in DelegateKeys, a \in Accounts : revoke_delegate(k[1], k[2], k[3], a)
    \/ \E k \in AttributeKeys, s \in ValiditySecs, a \in Accounts :
          set_attribute(k[1], k[2], k[3], s, a)
    \/ \E k \in AttributeKeys, a \in Accounts : revoke_attribute(k[1], k[2], k[3], a)
    \/ \E i \in Identities, a \in Accounts : increment_nonce(i, a)
    \/ \E ms \in BlockMillis : NewBlock(ms)

Spec == Init /\ [][Next]_vars

\* The registry after MaxU64 - 1 increment_nonce calls for one identity, the only
\* calls made so far.
InitNonce ==
    /\ owners = EmptyMap
    /\ delegates = EmptyMap
    /\ attributes = EmptyMap
    /\ changed = EmptyMap
    /\ \E i \in Identities : nonce = Insert(EmptyMap, i, MaxU64 - 1)
    /\ block_height = 0
    /\ block_timestamp_ms = 0
    /\ overflow_checks \in BOOLEAN
    /\ result = "ok"
    /\ calls = 0
    /\ last_change_owner = EmptyMap
    /\ last_mutation = EmptyMap
    /\ delegate_grants = EmptyMap
    /\ attribute_grants = EmptyMap

\* The calls that follow, counted from there.
SpecNonce == InitNonce /\ [][Next]_vars

\* Calls on one identity, with several delegates and several values under it.
NextWide ==
    \/ \E i \in WideIdentities, o \in Accounts, a \in Accounts : change_owner(i, o, a)
    \/ \E k \in WideDelegateKeys, s \in ValiditySecs, a \in Accounts :
          add_delegate(k[1], k[2], k[3], s, a)
    \/ \E k \in WideDelegateKeys, a \in Accounts : revoke_delegate(k[1], k[2], k[3], a)
    \/ \E k \in WideAttributeKeys, s \in ValiditySecs, a \in Accounts :
          set_attribute(k[1], k[2], k[3], s, a)
    \/ \E k \in WideAttributeKeys, a \in Accounts :
          revoke_attribute(k[1], k[2], k[3], a)
    \/ \E i \in WideIdentities, a \in Accounts : increment_nonce(i, a)
    \/ \E ms \in BlockMillis : NewBlock(ms)

SpecWide == Init /\ [][NextWide]_vars

\* ------------------------------------------------- steps the claims speak of

\* The step is a call by actor of one of the five owner-gated methods on identity.
GatedCall(identity, actor) ==
    \/ \E o \in Accounts : change_owner(identity, o, actor)
    \/ \E k \in DelegateKeys, s \in ValiditySecs :
          k[1] = identity /\ add_delegate(k[1], k[2], k[3], s, actor)
    \/ \E k \in DelegateKeys :
          k[1] = identity /\ revoke_delegate(k[1], k[2], k[3], actor)
    \/ \E k \in AttributeKeys, s \in ValiditySecs :
          k[1] = identity /\ set_attribute(k[1], k[2], k[3], s, actor)
    \/ \E k \in AttributeKeys :
          k[1] = identity /\ revoke_attribute(k[1], k[2], k[3], actor)

\* The owner of identity that the history of change_owner calls accounts for.
HistoricOwner(identity) ==
    IF identity \in DOMAIN last_change_owner
    THEN last_change_owner[identity].new_owner
    ELSE identity

\* ------------------------------------------------------------------ claims

\* In the claims a mutating call is a call of one of the five owner-gated methods;
\* increment_nonce is not owner-gated and writes the nonce only.

\* C1: a call of change_owner, add_delegate, revoke_delegate, set_attribute or
\* revoke_attribute whose actor is not identity_owner(identity) at the time of the
\* call panics with "bad_actor" and leaves owners, delegates, attributes, changed
\* and nonce exactly as they were.
C1_UnauthorizedAborts ==
    [][\A i \in Identities, a \in Accounts :
          (a # identity_owner(i) /\ GatedCall(i, a))
              => (result' = "bad_actor" /\ UNCHANGED maps)]_vars

\* A call was refused in a state that already holds ownership, delegate and
\* attribute records.
C1_Witness ==
    /\ result = "bad_actor"
    /\ owners # EmptyMap
    /\ delegates # EmptyMap \/ attributes # EmptyMap

\* C2: a change_owner(i, o2) by the current owner returns normally and leaves
\* identity_owner(i) = o2; by anybody else it panics with "bad_actor" and leaves the
\* owners untouched; so identity_owner(i) is always the new_owner of the latest
\* successful change_owner on i (i itself when there was none).
C2_ChangeOwner ==
    /\ [](\A i \in Identities : identity_owner(i) = HistoricOwner(i))
    /\ [][\A i \in Identities, o \in Accounts, a \in Accounts :
             change_owner(i, o, a)
                 => IF a = identity_owner(i)
                    THEN result' = "ok" /\ identity_owner(i)' = o
                    ELSE result' = "bad_actor" /\ owners' = owners]_vars

\* An identity was handed over to another account, which owns it now, and a later
\* call was refused.
C2_Witness ==
    /\ result = "bad_actor"
    /\ \E i \in DOMAIN last_change_owner :
          /\ last_change_owner[i].new_owner # last_change_owner[i].previous
          /\ identity_owner(i) = last_change_owner[i].new_owner

\* C3: once change_owner(i, o2) has succeeded with o2 different from the previous
\* owner p, and until the next successful change_owner on i, every owner-gated call
\* on i by p panics with "bad_actor" and every owner-gated call on i by o2 passes the
\* authorization check.
C3_AuthorizationFollowsOwner ==
    [][\A i \in DOMAIN last_change_owner, a \in Accounts :
          (/\ last_change_owner[i].new_owner # last_change_owner[i].previous
           /\ GatedCall(i, a))
              => /\ a = last_change_owner[i].previous => result' = "bad_actor"
                 /\ a = last_change_owner[i].new_owner => result' # "bad_actor"]_vars

\* An identity handed itself over to another account, the new owner has since made
\* the latest successful owner-gated call on it, and a later call was refused.
C3_Witness ==
    /\ result = "bad_actor"
    /\ \E i \in DOMAIN last_change_owner :
          /\ last_change_owner[i].new_owner # last_change_owner[i].previous
          /\ last_change_owner[i].previous = i
          /\ last_mutation[i].by = last_change_owner[i].new_owner

\* C4: an identity without an ownership record is its own owner, and only a
\* successful change_owner on it creates that record: as long as change_owner never
\* succeeded on i, whatever else was called, identity_owner(i) = i.
C4_SelfOwnedByDefault ==
    \A i \in Identities :
        /\ i \notin DOMAIN owners => identity_owner(i) = i
        /\ i \notin DOMAIN last_change_owner
              => i \notin DOMAIN owners /\ identity_owner(i) = i

\* An identity with delegate, attribute, changed and nonce records whose owner was
\* never changed.
C4_Witness ==
    \E i \in Identities :
        /\ i \notin DOMAIN last_change_owner
        /\ i \in DOMAIN changed
        /\ i \in DOMAIN nonce
        /\ \E k \in DOMAIN delegates : k[1] = i
        /\ identity_owner(i) = i

\* The latest grant of a key promises validity at the current second: it was not
\* revoked since and fewer than secs seconds have passed.
InWindow(grant) == ~grant.revoked /\ now_seconds < grant.at + grant.secs

\* C5: immediately after add_delegate(i, t, d, secs) by the owner with secs > 0,
\* whatever secs and the clock are within the u64 range, valid_delegate(i, t, d) is
\* true; likewise set_attribute and valid_attribute.
C5_GrantIsValid ==
    [][/\ \A k \in DelegateKeys, s \in ValiditySecs \ {0} :
             add_delegate(k[1], k[2], k[3], s, identity_owner(k[1]))
                 => valid_delegate(k[1], k[2], k[3])'
       /\ \A k \in AttributeKeys, s \in ValiditySecs \ {0} :
             set_attribute(k[1], k[2], k[3], s, identity_owner(k[1]))
                 => valid_attribute(k[1], k[2], k[3])']_vars

\* C6: immediately after a successful revoke_delegate (revoke_attribute) the record
\* of the key exists, holds valid_until = 0, and valid_delegate (valid_attribute) is
\* false, also inside the validity window of the grant before it.
C6_RevokeInvalidates ==
    [][/\ \A k \in DelegateKeys :
             revoke_delegate(k[1], k[2], k[3], identity_owner(k[1]))
                 => /\ k \in DOMAIN delegates'
                    /\ delegates'[k] = 0
                    /\ ~valid_delegate(k[1], k[2], k[3])'
       /\ \A k \in AttributeKeys :
             revoke_attribute(k[1], k[2], k[3], identity_owner(k[1]))
                 => /\ k \in DOMAIN attributes'
                    /\ attributes'[k] = 0
                    /\ ~valid_attribute(k[1], k[2], k[3])']_vars

\* An attribute was set for some seconds and revoked by the latest call, while the
\* window of the grant is still open.
C6_Witness ==
    /\ result = "ok"
    /\ \E k \in DOMAIN attribute_grants :
          LET g == attribute_grants[k]
          IN  /\ g.revoked
              /\ now_seconds < g.at + g.secs
              /\ g.at + g.secs <= MaxU64
              /\ attributes[k] = 0
              /\ ~valid_attribute(k[1], k[2], k[3])

\* C7: a delegate key that is not valid becomes valid only by a successful
\* add_delegate on that key by the then-current owner of the identity: no other call
\* and no advance of the clock re-validates it; likewise attribute keys with
\* set_attribute.
C7_NoRevalidation ==
    [][/\ \A k \in DelegateKeys :
             (~valid_delegate(k[1], k[2], k[3]) /\ valid_delegate(k[1], k[2], k[3])')
                 => /\ result' = "ok"
                    /\ \E s \in ValiditySecs :
                          add_delegate(k[1], k[2], k[3], s, identity_owner(k[1]))
       /\ \A k \in AttributeKeys :
             (~valid_attribute(k[1], k[2], k[3]) /\ valid_attribute(k[1], k[2], k[3])')
                 => /\ result' = "ok"
                    /\ \E s \in ValiditySecs :
                          set_attribute(k[1], k[2], k[3], s, identity_owner(k[1]))]_vars

\* A delegate granted for some seconds has expired with the clock, an attribute was
\* revoked inside its window, and neither is valid.
C7_Witness ==
    /\ \E k \in DOMAIN delegate_grants :
          LET g == delegate_grants[k]
          IN  /\ g.secs > 0
              /\ ~g.revoked
              /\ g.at + g.secs <= now_seconds
              /\ ~valid_delegate(k[1], k[2], k[3])
    /\ \E k \in DOMAIN attribute_grants :
          LET g == attribute_grants[k]
          IN  /\ g.revoked
              /\ now_seconds < g.at + g.secs
              /\ ~valid_attribute(k[1], k[2], k[3])

\* C8: a key granted at second t0 for secs seconds and not touched by a later grant
\* or revocation is valid at every second from t0 up to, not including, t0 + secs,
\* and at no later second; a grant of 0 seconds is never valid.
C8_ExpiryBoundary ==
    /\ \A k \in DOMAIN delegate_grants :
          ~delegate_grants[k].revoked
              => (valid_delegate(k[1], k[2], k[3]) <=> InWindow(delegate_grants[k]))
    /\ \A k \in DOMAIN attribute_grants :
          ~attribute_grants[k].revoked
              => (valid_attribute(k[1], k[2], k[3]) <=> InWindow(attribute_grants[k]))

\* C9: a successful add_delegate (set_attribute) stores now_seconds + validity_secs
\* for exactly its key, whatever was stored for the key before.
C9_StoresSum ==
    [][/\ \A k \in DelegateKeys, s \in ValiditySecs, a \in Accounts :
             (add_delegate(k[1], k[2], k[3], s, a) /\ result' = "ok")
                 => /\ DOMAIN delegates' = DOMAIN delegates \cup {k}
                    /\ delegates'[k] = now_seconds + s
                    /\ \A other \in DOMAIN delegates \ {k} :
                          delegates'[other] = delegates[other]
       /\ \A k \in AttributeKeys, s \in ValiditySecs, a \in Accounts :
             (set_attribute(k[1], k[2], k[3], s, a) /\ result' = "ok")
                 => /\ DOMAIN attributes' = DOMAIN attributes \cup {k}
                    /\ attributes'[k] = now_seconds + s
                    /\ \A other \in DOMAIN attributes \ {k} :
                          attributes'[other] = attributes[other]]_vars

\* C10: get_changed(i) is always the block height of the latest successful
\* owner-gated call on i, and 0 when there was none: every successful such call sets
\* it to the height of its block, and a refused call, like increment_nonce, leaves
\* it untouched.
C10_ChangedHeight ==
    \A i \in Identities :
        get_changed(i) = IF i \in DOMAIN last_mutation
                         THEN last_mutation[i].height
                         ELSE 0

\* One identity was mutated at a later block, the other never, and the latest call
\* was refused.
C10_Witness ==
    /\ result = "bad_actor"
    /\ block_height > 0
    /\ \E i \in Identities, j \in Identities :
          /\ i \in DOMAIN last_mutation
          /\ get_changed(i) = block_height
          /\ j \notin DOMAIN last_mutation
          /\ get_changed(j) = 0

\* What the five views return, for all their arguments at the current clock.
Observable ==
    [identity_owner  |-> [i \in Identities |-> identity_owner(i)],
     valid_delegate  |-> [k \in DelegateKeys |-> valid_delegate(k[1], k[2], k[3])],
     valid_attribute |-> [k \in AttributeKeys |-> valid_attribute(k[1], k[2], k[3])],
     get_changed     |-> [i \in Identities |-> get_changed(i)],
     get_nonce       |-> [i \in Identities |-> get_nonce(i)]]

\* The stored record of key in map is that of a revoked key.
Revoked(map, key) == key \in DOMAIN map /\ map[key] = 0

\* C11: revoke_delegate and revoke_attribute by the owner return without error
\* whether the key is granted, already revoked or was never granted, and leave the
\* key revoked; a revocation of a key that is already revoked changes nothing that
\* identity_owner, valid_delegate, valid_attribute, get_changed and get_nonce
\* return, for any argument, beyond setting get_changed(identity) to the current
\* block height, which it already is when the two revocations are in one block.
C11_RevokeIdempotent ==
    [][ /\ \A k \in DelegateKeys :
            revoke_delegate(k[1], k[2], k[3], identity_owner(k[1]))
                => /\ result' = "ok"
                   /\ Revoked(delegates, k)'
                   /\ Revoked(delegates, k)
                         => Observable' = [Observable EXCEPT
                                              !.get_changed[k[1]] = block_height]
        /\ \A k \in AttributeKeys :
            revoke_attribute(k[1], k[2], k[3], identity_owner(k[1]))
                => /\ result' = "ok"
                   /\ Revoked(attributes, k)'
                   /\ Revoked(attributes, k)
                         => Observable' = [Observable EXCEPT
                                              !.get_changed[k[1]] = block_height]
      ]_vars

\* A grant has been revoked twice in a row in the block of the grant, and the
\* identity's change height is that block's.
C11_Witness ==
    /\ calls = 3
    /\ result = "ok"
    /\ block_height = 0
    /\ \E k \in DelegateKeys :
          /\ k \in DOMAIN delegate_grants
          /\ delegate_grants[k].again
          /\ Revoked(delegates, k)
          /\ get_changed(k[1]) = block_height

\* C12: a delegate key has a record only once a successful add_delegate or
\* revoke_delegate wrote that key, an attribute key only once a successful
\* set_attribute or revoke_attribute wrote it; valid_delegate and valid_attribute
\* are false for every key without a record, at every clock value.
C12_UnwrittenInvalid ==
    /\ [](/\ \A k \in DelegateKeys \ DOMAIN delegates :
                ~valid_delegate(k[1], k[2], k[3])
          /\ \A k \in AttributeKeys \ DOMAIN attributes :
                ~valid_attribute(k[1], k[2], k[3]))
    /\ [][ /\ \A k \in (DOMAIN delegates') \ DOMAIN delegates :
                /\ result' = "ok"
                /\ \/ \E s \in ValiditySecs :
                         add_delegate(k[1], k[2], k[3], s, identity_owner(k[1]))
                   \/ revoke_delegate(k[1], k[2], k[3], identity_owner(k[1]))
           /\ \A k \in (DOMAIN attributes') \ DOMAIN attributes :
                /\ result' = "ok"
                /\ \/ \E s \in ValiditySecs :
                         set_attribute(k[1], k[2], k[3], s, identity_owner(k[1]))
                   \/ revoke_attribute(k[1], k[2], k[3], identity_owner(k[1]))
         ]_vars

\* The clock has advanced, one delegate key is valid, and another delegate key and
\* an attribute key have never been written.
C12_Witness ==
    /\ now_seconds > 0
    /\ \E k \in DOMAIN delegates : valid_delegate(k[1], k[2], k[3])
    /\ DelegateKeys \ DOMAIN delegates # {}
    /\ AttributeKeys \ DOMAIN attributes # {}
    /\ attributes # EmptyMap

\* C13: increment_nonce(i) succeeds for any caller and raises get_nonce(i) by
\* exactly 1, leaving every other nonce as it is; no other step changes any nonce;
\* so get_nonce(i) counts the increment_nonce(i) calls and never decreases.
C13_NonceCounts ==
    [][ /\ \A i \in Identities, a \in Accounts :
            increment_nonce(i, a)
                => /\ result' = "ok"
                   /\ get_nonce(i)' = get_nonce(i) + 1
                   /\ \A j \in Identities \ {i} : get_nonce(j)' = get_nonce(j)
        /\ (\A i \in Identities, a \in Accounts : ~increment_nonce(i, a))
                => nonce' = nonce
        /\ \A i \in Identities : get_nonce(i)' >= get_nonce(i)
      ]_vars

\* C14: the authorization failure is the only failure: every call of an
\* owner-gated method by the current owner returns ok and commits its writes (the
\* identity's change height becomes the current block height), for every input at
\* every clock value; increment_nonce returns ok at every nonce value; and no call
\* ever ends in an error other than bad_actor.
C14_OnlyUnauthorizedFails ==
    /\ [](result \in {"none", "ok", "bad_actor"})
    /\ [][ /\ \A i \in Identities :
                GatedCall(i, identity_owner(i))
                    => /\ result' = "ok"
                       /\ i \in DOMAIN changed'
                       /\ get_changed(i)' = block_height
           /\ \A i \in Identities, a \in Accounts :
                increment_nonce(i, a)
                    => /\ result' = "ok"
                       /\ i \in DOMAIN nonce'
         ]_vars

\* The stored record of key in map: its valid_until, or nothing.
Record(map, key) == IF key \in DOMAIN map THEN <<map[key]>> ELSE << >>

\* The step is a call of add_delegate or revoke_delegate on key.
DelegateWrite(key) ==
    \E a \in Accounts :
        \/ \E s \in ValiditySecs : add_delegate(key[1], key[2], key[3], s, a)
        \/ revoke_delegate(key[1], key[2], key[3], a)

\* The step is a call of set_attribute or revoke_attribute on key.
AttributeWrite(key) ==
    \E a \in Accounts :
        \/ \E s \in ValiditySecs : set_attribute(key[1], key[2], key[3], s, a)
        \/ revoke_attribute(key[1], key[2], key[3], a)

\* C15: add_delegate and revoke_delegate on a key leave the record of every other
\* delegate key and every attribute record as they are; set_attribute and
\* revoke_attribute on a key leave the record of every other attribute key, also
\* of another value under the same identity and name, and every delegate record as
\* they are. Stated from the record's side: a step in which the record of a key
\* changes is no delegate or attribute write on any other key.
C15_RecordsIndependent ==
    [][ /\ \A other \in DelegateKeys \union WideDelegateKeys :
            Record(delegates, other)' # Record(delegates, other)
                => /\ \A k \in (DelegateKeys \union WideDelegateKeys) \ {other} :
                         ~DelegateWrite(k)
                   /\ \A k \in AttributeKeys \union WideAttributeKeys :
                         ~AttributeWrite(k)
        /\ \A other \in AttributeKeys \union WideAttributeKeys :
            Record(attributes, other)' # Record(attributes, other)
                => /\ \A k \in (AttributeKeys \union WideAttributeKeys) \ {other} :
                         ~AttributeWrite(k)
                   /\ \A k \in DelegateKeys \union WideDelegateKeys :
                         ~DelegateWrite(k)
      ]_vars

\* Two values under one identity and name hold different records, one valid and
\* one revoked, next to a valid delegate.
C15_Witness ==
    /\ result = "ok"
    /\ \E k \in WideAttributeKeys, other \in WideAttributeKeys :
          /\ k[1] = other[1] /\ k[2] = other[2] /\ k[3] # other[3]
          /\ valid_attribute(k[1], k[2], k[3])
          /\ Revoked(attributes, other)
    /\ \E k \in WideDelegateKeys : valid_delegate(k[1], k[2], k[3])

\* C16: no step removes a record: a key that has a record in owners, delegates,
\* attributes, changed or nonce has one after every step; and a revocation by the
\* owner of a key without a record creates the record with value 0, which is a
\* stored state other than the absent one.
C16_NothingDeleted ==
    [][ /\ DOMAIN owners \subseteq DOMAIN owners'
        /\ DOMAIN delegates \subseteq DOMAIN delegates'
        /\ DOMAIN attributes \subseteq DOMAIN attributes'
        /\ DOMAIN changed \subseteq DOMAIN changed'
        /\ DOMAIN nonce \subseteq DOMAIN nonce'
        /\ \A k \in DelegateKeys \ DOMAIN delegates :
              revoke_delegate(k[1], k[2], k[3], identity_owner(k[1]))
                  => /\ Record(delegates, k)' = <<0>>
                     /\ Record(delegates, k)' # Record(delegates, k)
        /\ \A k \in AttributeKeys \ DOMAIN attributes :
              revoke_attribute(k[1], k[2], k[3], identity_owner(k[1]))
                  => /\ Record(attributes, k)' = <<0>>
                     /\ Record(attributes, k)' # Record(attributes, k)
      ]_vars

\* A never-granted delegate key was revoked and keeps its record 0 through later
\* calls that wrote an owner and a nonce, while another delegate key has no record.
C16_Witness ==
    /\ \E k \in DelegateKeys :
          /\ Revoked(delegates, k)
          /\ k \notin DOMAIN delegate_grants
    /\ DelegateKeys \ DOMAIN delegates # {}
    /\ owners # EmptyMap
    /\ nonce # EmptyMap
    /\ changed # EmptyMap

\* C17: a successful change_owner leaves every delegate record, every attribute
\* record and every nonce as they are, so whatever valid_delegate and
\* valid_attribute returned under the previous owner they return under the new one.
C17_TransferKeepsGrants ==
    [][\A i \in Identities, o \in Accounts :
          change_owner(i, o, identity_owner(i))
              => /\ result' = "ok"
                 /\ delegates' = delegates
                 /\ attributes' = attributes
                 /\ nonce' = nonce
                 /\ Observable.valid_delegate' = Observable.valid_delegate
                 /\ Observable.valid_attribute' = Observable.valid_attribute
                 /\ Observable.get_nonce' = Observable.get_nonce
      ]_vars

\* The owner of an identity granted a delegate and then handed the identity to
\* another account: the delegate is still valid under the new owner.
C17_Witness ==
    \E k \in DelegateKeys :
        /\ k[1] \in DOMAIN last_change_owner
        /\ last_change_owner[k[1]].previous # last_change_owner[k[1]].new_owner
        /\ identity_owner(k[1]) = last_change_owner[k[1]].new_owner
        /\ last_mutation[k[1]].by = last_change_owner[k[1]].previous
        /\ k \in DOMAIN delegate_grants
        /\ valid_delegate(k[1], k[2], k[3])

\* Everything the registry stores under identity: its owner, change height and
\* nonce records and the delegate and attribute records keyed under it.
StoredUnder(identity) ==
    [owner      |-> Record(owners, identity),
     changed    |-> Record(changed, identity),
     nonce      |-> Record(nonce, identity),
     delegates  |-> [k \in {identity} \X DelegateTypes \X Delegates |->
                        Record(delegates, k)],
     attributes |-> [k \in {identity} \X Names \X Values |-> Record(attributes, k)]]

\* The step is a call, by any actor, of a method whose identity argument is identity.
CallOn(identity) ==
    \E a \in Accounts : GatedCall(identity, a) \/ increment_nonce(identity, a)

\* C18: a call whose identity argument is i, successful or not, leaves
\* identity_owner(j), get_changed(j), get_nonce(j) and every record stored under j
\* as they are for every identity j other than i, also when j is the new owner,
\* the delegate or the actor of the call. Stated from the side of j: a step in
\* which anything stored or reported for j changes is no call on another identity.
C18_IdentitiesIsolated ==
    [][\A j \in Identities :
          (\/ StoredUnder(j)' # StoredUnder(j)
           \/ identity_owner(j)' # identity_owner(j)
           \/ get_changed(j)' # get_changed(j)
           \/ get_nonce(j)' # get_nonce(j))
              => \A i \in Identities \ {j} : ~CallOn(i)
      ]_vars

\* One identity was handed to the other one, which is also its delegate and has
\* raised its nonce, while nothing at all is stored under that other identity.
C18_Witness ==
    \E i \in Identities, j \in Identities :
        /\ i # j
        /\ identity_owner(i) = j
        /\ \E k \in DOMAIN delegates : k[1] = i /\ k[3] = j
        /\ get_nonce(i) > 0
        /\ j \notin DOMAIN owners \union DOMAIN changed \union DOMAIN nonce
        /\ \A k \in DOMAIN delegates : k[1] # j
        /\ \A k \in DOMAIN attributes : k[1] # j
        /\ identity_owner(j) = j

\* C19: with a block height that never decreases from one step to the next,
\* get_changed(i) never decreases and never exceeds the current block height; it
\* changes only in a successful owner-gated call on i, to the block height of that
\* call.
C19_ChangedMonotone ==
    /\ [](\A i \in Identities : get_changed(i) <= block_height)
    /\ [][block_height' >= block_height]_vars
    /\ [][\A i \in Identities :
             /\ get_changed(i)' >= get_changed(i)
             /\ get_changed(i)' # get_changed(i)
                   => /\ get_changed(i)' = block_height
                      /\ result' = "ok"
                      /\ GatedCall(i, identity_owner(i))
         ]_vars

\* An identity was changed in one block and again in a later one: its change
\* height rose from a positive value to the current block height.
C19_Witness ==
    \E k \in DOMAIN delegate_grants :
        /\ delegate_grants[k].at > 0
        /\ delegate_grants[k].at < now_seconds
        /\ get_changed(k[1]) = block_height
        /\ \E j \in Identities : get_changed(j) < get_changed(k[1])

====
